---- MODULE Spec2Model ----
(***************************************************************************)
(* Model of the MPU-6050 MicroPython driver (package mpu_6050):            *)
(*   bit_utils.py        single-bit helpers on Python integers             *)
(*   utils.py            int_from_bytes, the byte-sequence decoder         *)
(*   i2c_transaction.py  I2CTransaction, the start/stop scoped bus session *)
(*   mpu.py              MPU6050, the device driver                        *)
(* Python integers are unbounded two's-complement numbers; the bitwise     *)
(* operators below work on them bit by bit with floor division, so that    *)
(* ~x is negative and x & ~m is computed as Python computes it.            *)
(***************************************************************************)
EXTENDS Integers, Sequences, FiniteSets, TLC

VARIABLES
    regs,                 \* device configuration registers, address -> 0..255
    gyroscope_scale,      \* MPU6050.gyroscope_scale
    accelerometer_scale,  \* MPU6050.accelerometer_scale
    phase,                \* "new" before __init__, "ready" after, "failed" if it raised
    bus,                  \* bus events issued by the most recent driver call
    err,                  \* exception the most recent driver call raised, or "none"
    result,               \* value the most recent driver call returned
    lastOp,               \* the most recent driver call, name and argument
    lastMode,             \* the most recent completed call among __init__/wake_up/sleep
    input,                \* arguments of a call of a pure helper
    output                \* what the pure helper returned

vars == <<regs, gyroscope_scale, accelerometer_scale, phase, bus, err, result,
          lastOp, lastMode, input, output>>

driverVars == <<regs, gyroscope_scale, accelerometer_scale, phase, bus, err,
                result, lastOp, lastMode>>

\* stands for "no value" where an integer is expected
None == -1

(***************************************************************************)
(* Bounds of the model.                                                    *)
(***************************************************************************)
\* how many of the sample byte values the decoded sequences are built from
NumSamples == 5

\* sample byte values: the extremes, both sides of the sign bit, and mixed bits
SampleBytes == <<0, 255, 128, 127, 1, 165, 90>>

ByteSamples == {SampleBytes[k] : k \in 1..NumSamples}

\* lengths of the byte sequences handed to int_from_bytes: one-byte
\* configuration registers, two-byte sensor outputs, and three bytes
Lengths == 1..3

\* register files the device may hold before the driver is built, as
\* (PWR_MGMT_1, GYRO_CONFIG, ACCEL_CONFIG): the reset state 0x40/0/0 and two
\* files with the bits around the driver's fields set
DeviceSamples == {<<64, 0, 0>>, <<191, 239, 16>>, <<255, 24, 231>>}

(***************************************************************************)
(* Python's integer operators.                                             *)
(***************************************************************************)
RECURSIVE Pow2(_)
Pow2(n) == IF n = 0 THEN 1 ELSE 2 * Pow2(n - 1)

\* a << n
Shl(a, n) == a * Pow2(n)

\* a >> n (arithmetic, rounds towards minus infinity)
Shr(a, n) == a \div Pow2(n)

\* ~a
BitNot(a) == (-a) - 1

RECURSIVE BitAnd(_, _)
\* a & b
BitAnd(a, b) ==
    IF a = 0 \/ b = 0 THEN 0
    ELSE IF a = -1 THEN b
    ELSE IF b = -1 THEN a
    ELSE (a % 2) * (b % 2) + 2 * BitAnd(a \div 2, b \div 2)

RECURSIVE BitOr(_, _)
\* a | b
BitOr(a, b) ==
    IF a = 0 THEN b
    ELSE IF b = 0 THEN a
    ELSE IF a = -1 \/ b = -1 THEN -1
    ELSE (IF a % 2 = 1 \/ b % 2 = 1 THEN 1 ELSE 0) + 2 * BitOr(a \div 2, b \div 2)

(***************************************************************************)
(* bit_utils.py                                                            *)
(***************************************************************************)
\* sets the bit by addition instead of or
enable_bit_add(value, bit_index) == value + Shl(1, bit_index)

enable_bit(value, bit_index) == BitOr(value, Shl(1, bit_index))

\* leaves the value as it is
disable_bit_keep(value, bit_index) == value

disable_bit(value, bit_index) == BitAnd(value, BitNot(Shl(1, bit_index)))

\* bit_value is used for its truth value: 0 and False are false
set_bit(value, bit_index, bit_value) ==
    IF bit_value # 0 THEN enable_bit(value, bit_index)
    ELSE disable_bit(value, bit_index)

get_bit(value, bit_index) == BitAnd(Shr(value, bit_index), 1)

(***************************************************************************)
(* utils.py                                                                *)
(***************************************************************************)
\* the loop of lines 28-31: reversed_data[i] = data[len(data) - 1 - i]
reversed_bytes(data) == [i \in 1..Len(data) |-> data[Len(data) + 1 - i]]

RECURSIVE shift_or(_, _)
\* the loop of lines 33-35, started from the accumulator value
shift_or(value, data) ==
    IF data = <<>> THEN value
    ELSE shift_or(BitOr(Shl(value, 8), Head(data)), Tail(data))

\* the decoder without the sign correction of lines 37-38
int_from_bytes_unsigned(data, byteorder, signed) ==
    IF byteorder \notin {"big", "little"}
    THEN [exc |-> "ValueError", ret |-> None]
    ELSE LET ordered == IF byteorder = "little" THEN reversed_bytes(data) ELSE data
         IN  [exc |-> "none", ret |-> shift_or(0, ordered)]

\* returns the integer, or raises ValueError
int_from_bytes(data, byteorder, signed) ==
    IF byteorder \notin {"big", "little"}
    THEN [exc |-> "ValueError", ret |-> None]
    ELSE LET ordered == IF byteorder = "little" THEN reversed_bytes(data) ELSE data
             value   == shift_or(0, ordered)
         IN  [exc |-> "none",
              ret |-> IF signed /\ BitAnd(ordered[1], 128) # 0
                      THEN value - Shl(1, 8 * Len(ordered))
                      ELSE value]

(***************************************************************************)
(* mpu.py: register map and enumerations.                                  *)
(***************************************************************************)
ACCEL_CONFIG == 28
GYRO_CONFIG == 27
ACCEL_X_OUT == 59
ACCEL_Y_OUT == 61
ACCEL_Z_OUT == 63
TEMP_OUT == 65
GYRO_X_OUT == 67
GYRO_Y_OUT == 69
GYRO_Z_OUT == 71
PWR_MGMT_1 == 107

\* the registers the driver writes
ConfigRegs == {PWR_MGMT_1, GYRO_CONFIG, ACCEL_CONFIG}

\* the byte addresses of the 16-bit output registers, 0x3B..0x48
OutputBytes == ACCEL_X_OUT..(GYRO_Z_OUT + 1)

\* (FS_SEL code, range); the float ranges 250.0 .. 2000.0 are whole numbers
GyroscopeRange == {<<0, 250>>, <<1, 500>>, <<2, 1000>>, <<3, 2000>>}

\* (AFS_SEL code, range in g)
AccelerometerRange == {<<0, 2>>, <<1, 4>>, <<2, 8>>, <<3, 16>>}

ClockSource == {0, 1, 2, 3, 4, 5, 7}

range_250 == <<0, 250>>

range_2g == <<0, 2>>

gyroscope_y == 2

(***************************************************************************)
(* The state a driver call runs on: the device registers, the two scale    *)
(* fields of the MPU6050 object, the bus events issued so far, the pending *)
(* exception and the value of the last expression.  sensor is the content  *)
(* of the output registers during the call, fault the number of the        *)
(* transport call that fails (0: none) and io the transport calls made.    *)
(***************************************************************************)
Raised(s) == s.exc # "none"

\* machine.SoftI2C.start / stop
i2c_start(s) == [s EXCEPT !.bus = Append(@, "start")]

i2c_stop(s) == [s EXCEPT !.bus = Append(@, "stop")]

\* the byte the device holds at an address
ByteAt(s, a) == IF a \in ConfigRegs THEN s.regs[a] ELSE s.sensor[a]

\* machine.SoftI2C.readfrom_mem: the bytes, or OSError
readfrom_mem(s, register, length) ==
    IF s.io + 1 = s.fault
    THEN [s EXCEPT !.io = @ + 1, !.bus = Append(@, "read_fail"), !.exc = "OSError"]
    ELSE [s EXCEPT !.io = @ + 1, !.bus = Append(@, "read"),
                   !.ret = [k \in 1..length |-> ByteAt(s, register + k - 1)]]

\* machine.SoftI2C.writeto: array[1] is the register address, the bytes after
\* it go to consecutive registers; a failed transfer stores nothing
writeto(s, array) ==
    IF s.io + 1 = s.fault
    THEN [s EXCEPT !.io = @ + 1, !.bus = Append(@, "write_fail"), !.exc = "OSError"]
    ELSE [s EXCEPT !.io = @ + 1, !.bus = Append(@, "write"),
                   !.regs = [r \in ConfigRegs |->
                               IF r - array[1] + 2 \in 2..Len(array)
                               THEN array[r - array[1] + 2] ELSE s.regs[r]]]

(***************************************************************************)
(* i2c_transaction.py                                                      *)
(***************************************************************************)
__enter__(s) == i2c_start(s)

\* a scope exit that drops the pending exception (as if it returned True)
exit_swallow(s) == [i2c_stop(s) EXCEPT !.exc = "none"]

\* stops the bus and returns False: a pending exception stays pending
__exit__(s) ==
    LET suppress == FALSE
    IN  [i2c_stop(s) EXCEPT !.exc = IF suppress THEN "none" ELSE @]

read_bytes(s, register, length) == readfrom_mem(s, register, length)

read_int(s, register, byte_length, byteorder, signed) ==
    LET byte_value == read_bytes(s, register, byte_length)
    IN  IF Raised(byte_value) THEN byte_value
        ELSE LET integer_value == int_from_bytes(byte_value.ret, byteorder, signed)
             IN  [byte_value EXCEPT !.exc = integer_value.exc,
                                    !.ret = integer_value.ret]

\* bytearray(array) raises ValueError for an element outside 0..255
write(s, register, values) ==
    LET array == <<register>> \o values
    IN  IF \E k \in DOMAIN array : array[k] \notin 0..255
        THEN [s EXCEPT !.exc = "ValueError"]
        ELSE writeto(s, array)

(***************************************************************************)
(* mpu.py: class MPU6050.  A with-block is __enter__, the body up to the   *)
(* first exception, then __exit__ on every path.                           *)
(***************************************************************************)
\* the statement after a block runs only when nothing is pending
Return(s, v) == IF Raised(s) THEN [s EXCEPT !.ret = <<>>] ELSE [s EXCEPT !.ret = v]

\* wake-up by storing 0 in the whole register, without reading it
wake_up_zero(s) ==
    LET transaction == __enter__(s)
        written     == write(transaction, PWR_MGMT_1, <<0>>)
    IN  Return(__exit__(written), <<>>)

wake_up(s) ==
    LET transaction == __enter__(s)
        read_value  == read_int(transaction, PWR_MGMT_1, 1, "big", FALSE)
        written     == IF Raised(read_value) THEN read_value
                       ELSE write(read_value, PWR_MGMT_1,
                                  <<disable_bit(read_value.ret, 6)>>)
    IN  Return(__exit__(written), <<>>)

\* sleep on the wrong bit of the register
sleep_bit5(s) ==
    LET transaction == __enter__(s)
        read_value  == read_int(transaction, PWR_MGMT_1, 1, "big", FALSE)
        written     == IF Raised(read_value) THEN read_value
                       ELSE write(read_value, PWR_MGMT_1,
                                  <<enable_bit(read_value.ret, 5)>>)
    IN  Return(__exit__(written), <<>>)

sleep(s) ==
    LET transaction == __enter__(s)
        read_value  == read_int(transaction, PWR_MGMT_1, 1, "big", FALSE)
        written     == IF Raised(read_value) THEN read_value
                       ELSE write(read_value, PWR_MGMT_1,
                                  <<enable_bit(read_value.ret, 6)>>)
    IN  Return(__exit__(written), <<>>)

\* the range setter with the scale stored before the transaction
set_gyroscope_range_early(s, option) ==
    LET fs_sel      == option[1]
        scale       == option[2]
        stored      == [s EXCEPT !.gyroscope_scale = scale]
        transaction == __enter__(stored)
        read_value  == read_int(transaction, GYRO_CONFIG, 1, "big", FALSE)
        write_value == set_bit(set_bit(read_value.ret, 3, get_bit(fs_sel, 0)),
                               4, get_bit(fs_sel, 1))
        written     == IF Raised(read_value) THEN read_value
                       ELSE write(read_value, GYRO_CONFIG, <<write_value>>)
    IN  Return(__exit__(written), <<>>)

set_gyroscope_range(s, option) ==
    LET fs_sel      == option[1]
        scale       == option[2]
        transaction == __enter__(s)
        read_value  == read_int(transaction, GYRO_CONFIG, 1, "big", FALSE)
        write_value == set_bit(set_bit(read_value.ret, 3, get_bit(fs_sel, 0)),
                               4, get_bit(fs_sel, 1))
        written     == IF Raised(read_value) THEN read_value
                       ELSE write(read_value, GYRO_CONFIG, <<write_value>>)
        closed      == __exit__(written)
    IN  IF Raised(closed) THEN Return(closed, <<>>)
        ELSE Return([closed EXCEPT !.gyroscope_scale = scale], <<>>)

\* the range setter with the two code bits stored the wrong way round
set_accelerometer_range_swapped(s, option) ==
    LET fs_sel      == option[1]
        scale       == option[2]
        transaction == __enter__(s)
        read_value  == read_int(transaction, ACCEL_CONFIG, 1, "big", FALSE)
        write_value == set_bit(set_bit(read_value.ret, 4, get_bit(fs_sel, 0)),
                               3, get_bit(fs_sel, 1))
        written     == IF Raised(read_value) THEN read_value
                       ELSE write(read_value, ACCEL_CONFIG, <<write_value>>)
        closed      == __exit__(written)
    IN  IF Raised(closed) THEN Return(closed, <<>>)
        ELSE Return([closed EXCEPT !.accelerometer_scale = scale], <<>>)

set_accelerometer_range(s, option) ==
    LET fs_sel      == option[1]
        scale       == option[2]
        transaction == __enter__(s)
        read_value  == read_int(transaction, ACCEL_CONFIG, 1, "big", FALSE)
        write_value == set_bit(set_bit(read_value.ret, 3, get_bit(fs_sel, 0)),
                               4, get_bit(fs_sel, 1))
        written     == IF Raised(read_value) THEN read_value
                       ELSE write(read_value, ACCEL_CONFIG, <<write_value>>)
        closed      == __exit__(written)
    IN  IF Raised(closed) THEN Return(closed, <<>>)
        ELSE Return([closed EXCEPT !.accelerometer_scale = scale], <<>>)

\* the clock source stored as its three bits, option bit k in register bit k
set_clock_source_three_bits(s, option) ==
    LET transaction == __enter__(s)
        read_value  == read_int(transaction, PWR_MGMT_1, 1, "big", FALSE)
        write_value == set_bit(set_bit(set_bit(read_value.ret, 0, get_bit(option, 0)),
                                       1, get_bit(option, 1)),
                               2, get_bit(option, 2))
        written     == IF Raised(read_value) THEN read_value
                       ELSE write(read_value, PWR_MGMT_1, <<write_value>>)
    IN  Return(__exit__(written), <<>>)

\* bit 1 is assigned twice, from option bit 2 and then from option bit 3
set_clock_source(s, option) ==
    LET transaction == __enter__(s)
        read_value  == read_int(transaction, PWR_MGMT_1, 1, "big", FALSE)
        write_value == set_bit(set_bit(set_bit(read_value.ret, 0, get_bit(option, 0)),
                                       1, get_bit(option, 2)),
                               1, get_bit(option, 3))
        written     == IF Raised(read_value) THEN read_value
                       ELSE write(read_value, PWR_MGMT_1, <<write_value>>)
    IN  Return(__exit__(written), <<>>)

\* three signed 16-bit reads inside one transaction
read_xyz(s, x_out, y_out, z_out) ==
    LET transaction == __enter__(s)
        x == read_int(transaction, x_out, 2, "big", TRUE)
        y == IF Raised(x) THEN x ELSE read_int(x, y_out, 2, "big", TRUE)
        z == IF Raised(y) THEN y ELSE read_int(y, z_out, 2, "big", TRUE)
    IN  Return(__exit__(z), <<x.ret, y.ret, z.ret>>)

read_gyroscope_raw(s) == read_xyz(s, GYRO_X_OUT, GYRO_Y_OUT, GYRO_Z_OUT)

read_accelerometer_raw(s) == read_xyz(s, ACCEL_X_OUT, ACCEL_Y_OUT, ACCEL_Z_OUT)

\* reading / 32767 * scale, carried as the numerator over 32767
read_gyroscope_degrees(s) ==
    LET reading == read_gyroscope_raw(s)
    IN  Return(reading, [k \in 1..3 |-> reading.ret[k] * s.gyroscope_scale])

\* reading / 32767 * scale, carried as the numerator over 32767
read_accelerometer_gs(s) ==
    LET reading == read_accelerometer_raw(s)
    IN  Return(reading, [k \in 1..3 |-> reading.ret[k] * s.accelerometer_scale])

\* gs * 9.81, carried as the numerator over 3276700
read_accelerometer_meters(s) ==
    LET reading == read_accelerometer_gs(s)
    IN  Return(reading, [k \in 1..3 |-> reading.ret[k] * 981])

read_temperature_raw(s) ==
    LET transaction == __enter__(s)
        reading     == read_int(transaction, TEMP_OUT, 2, "big", TRUE)
    IN  Return(__exit__(reading), <<reading.ret>>)

\* reading / 340 + 36.53, carried as the numerator over 34000
read_temperature_degrees(s) ==
    LET reading == read_temperature_raw(s)
    IN  Return(reading, <<reading.ret[1] * 100 + 1242020>>)

\* MPU6050.__init__: four calls, the first exception ends construction
Mpu6050Init(s) ==
    LET woken   == wake_up(s)
        clocked == IF Raised(woken) THEN woken
                   ELSE set_clock_source(woken, gyroscope_y)
        gyro    == IF Raised(clocked) THEN clocked
                   ELSE set_gyroscope_range(clocked, range_250)
    IN  IF Raised(gyro) THEN gyro ELSE set_accelerometer_range(gyro, range_2g)

(***************************************************************************)
(* Calls of the pure helpers.  The driver is not involved and its state    *)
(* stays as it is before construction.                                     *)
(***************************************************************************)
NoCall == [name |-> "none", arg |-> <<>>]

DriverIdle ==
    /\ regs = [r \in ConfigRegs |-> 0]
    /\ gyroscope_scale = None
    /\ accelerometer_scale = None
    /\ phase = "new"
    /\ bus = <<>>
    /\ err = "none"
    /\ result = <<>>
    /\ lastOp = NoCall
    /\ lastMode = "none"

\* all byte sequences of the given lengths over ByteSamples
ByteSeqs(lengths) == UNION {[1..k -> ByteSamples] : k \in lengths}

CodecInit ==
    /\ DriverIdle
    /\ input \in [data : ByteSeqs(Lengths),
                  byteorder : {"big", "little", "middle"},
                  signed : BOOLEAN]
    /\ output = [exc |-> "pending", ret |-> None]

Decode ==
    /\ output.exc = "pending"
    /\ output' = int_from_bytes(input.data, input.byteorder, input.signed)
    /\ UNCHANGED <<input, driverVars>>

CodecNext == Decode

SpecCodec == CodecInit /\ [][CodecNext]_vars

\* a value and a bit index; the value is then rewritten in place
BitsInit ==
    /\ DriverIdle
    /\ input \in [value : 0..255, bit_index : 0..7]
    /\ output = [op |-> "none", bit_value |-> None, value |-> input.value, ret |-> None]

EnableBit ==
    /\ output' = [op |-> "enable_bit", bit_value |-> None,
                  value |-> enable_bit(output.value, input.bit_index), ret |-> None]
    /\ UNCHANGED <<input, driverVars>>

DisableBit ==
    /\ output' = [op |-> "disable_bit", bit_value |-> None,
                  value |-> disable_bit(output.value, input.bit_index), ret |-> None]
    /\ UNCHANGED <<input, driverVars>>

SetBit ==
    /\ \E b \in {0, 1} :
          output' = [op |-> "set_bit", bit_value |-> b,
                     value |-> set_bit(output.value, input.bit_index, b), ret |-> None]
    /\ UNCHANGED <<input, driverVars>>

GetBit ==
    /\ output' = [op |-> "get_bit", bit_value |-> None, value |-> output.value,
                  ret |-> get_bit(output.value, input.bit_index)]
    /\ UNCHANGED <<input, driverVars>>

BitsNext == EnableBit \/ DisableBit \/ SetBit \/ GetBit

SpecBits == BitsInit /\ [][BitsNext]_vars

(***************************************************************************)
(* The driver as a state machine: one action per public call of MPU6050.   *)
(* Each call picks which transport call fails, if any, and the telemetry   *)
(* calls pick what the sensor holds.                                       *)
(***************************************************************************)
\* output-register contents: all zero, and one with both signs and extremes
\* (gyro 0x3FFF, 0xFFFF, 0x8000; accel 0x7FFF, 0x0001, 0xFF00; temp 0xF000)
SensorSamples ==
    { [a \in OutputBytes |-> 0],
      [a \in OutputBytes |->
          CASE a = GYRO_X_OUT -> 63      [] a = GYRO_X_OUT + 1 -> 255
            [] a = GYRO_Y_OUT -> 255     [] a = GYRO_Y_OUT + 1 -> 255
            [] a = GYRO_Z_OUT -> 128     [] a = GYRO_Z_OUT + 1 -> 0
            [] a = ACCEL_X_OUT -> 127    [] a = ACCEL_X_OUT + 1 -> 255
            [] a = ACCEL_Y_OUT -> 0      [] a = ACCEL_Y_OUT + 1 -> 1
            [] a = ACCEL_Z_OUT -> 255    [] a = ACCEL_Z_OUT + 1 -> 0
            [] a = TEMP_OUT -> 240       [] a = TEMP_OUT + 1 -> 0] }

NoSensor == [a \in OutputBytes |-> 0]

\* the state a call starts from
Entry(fault, sensor) ==
    [regs |-> regs, gyroscope_scale |-> gyroscope_scale,
     accelerometer_scale |-> accelerometer_scale,
     bus |-> <<>>, exc |-> "none", ret |-> <<>>,
     io |-> 0, fault |-> fault, sensor |-> sensor]

\* the state a call leaves behind
Leave(s, name, arg) ==
    /\ regs' = s.regs
    /\ gyroscope_scale' = s.gyroscope_scale
    /\ accelerometer_scale' = s.accelerometer_scale
    /\ bus' = s.bus
    /\ err' = s.exc
    /\ result' = s.ret
    /\ lastOp' = [name |-> name, arg |-> arg]
    /\ lastMode' = IF ~Raised(s) /\ name \in {"__init__", "wake_up", "sleep"}
                   THEN name ELSE lastMode
    /\ UNCHANGED <<input, output>>

Construct ==
    /\ phase = "new"
    /\ \E fault \in 0..8 :
          \E s \in {Mpu6050Init(Entry(fault, NoSensor))} :
             /\ Leave(s, "__init__", <<>>)
             /\ phase' = IF Raised(s) THEN "failed" ELSE "ready"

WakeUp ==
    /\ phase = "ready"
    /\ \E fault \in 0..2 :
          \E s \in {wake_up(Entry(fault, NoSensor))} :
             Leave(s, "wake_up", <<>>)
    /\ UNCHANGED phase

Sleep ==
    /\ phase = "ready"
    /\ \E fault \in 0..2 :
          \E s \in {sleep(Entry(fault, NoSensor))} :
             Leave(s, "sleep", <<>>)
    /\ UNCHANGED phase

SetGyroscopeRange ==
    /\ phase = "ready"
    /\ \E fault \in 0..2, option \in GyroscopeRange :
          \E s \in {set_gyroscope_range(Entry(fault, NoSensor), option)} :
             Leave(s, "set_gyroscope_range", option)
    /\ UNCHANGED phase

SetAccelerometerRange ==
    /\ phase = "ready"
    /\ \E fault \in 0..2, option \in AccelerometerRange :
          \E s \in {set_accelerometer_range(Entry(fault, NoSensor), option)} :
             Leave(s, "set_accelerometer_range", option)
    /\ UNCHANGED phase

SetClockSource ==
    /\ phase = "ready"
    /\ \E fault \in 0..2, option \in ClockSource :
          \E s \in {set_clock_source(Entry(fault, NoSensor), option)} :
             Leave(s, "set_clock_source", <<option>>)
    /\ UNCHANGED phase

ReadGyroscopeRaw ==
    /\ phase = "ready"
    /\ \E fault \in 0..3, sensor \in SensorSamples :
          \E s \in {read_gyroscope_raw(Entry(fault, sensor))} :
             Leave(s, "read_gyroscope_raw", <<>>)
    /\ UNCHANGED phase

ReadGyroscopeDegrees ==
    /\ phase = "ready"
    /\ \E fault \in 0..3, sensor \in SensorSamples :
          \E s \in {read_gyroscope_degrees(Entry(fault, sensor))} :
             Leave(s, "read_gyroscope_degrees", <<>>)
    /\ UNCHANGED phase

ReadAccelerometerRaw ==
    /\ phase = "ready"
    /\ \E fault \in 0..3, sensor \in SensorSamples :
          \E s \in {read_accelerometer_raw(Entry(fault, sensor))} :
             Leave(s, "read_accelerometer_raw", <<>>)
    /\ UNCHANGED phase

ReadAccelerometerGs ==
    /\ phase = "ready"
    /\ \E fault \in 0..3, sensor \in SensorSamples :
          \E s \in {read_accelerometer_gs(Entry(fault, sensor))} :
             Leave(s, "read_accelerometer_gs", <<>>)
    /\ UNCHANGED phase

ReadAccelerometerMeters ==
    /\ phase = "ready"
    /\ \E fault \in 0..3, sensor \in SensorSamples :
          \E s \in {read_accelerometer_meters(Entry(fault, sensor))} :
             Leave(s, "read_accelerometer_meters", <<>>)
    /\ UNCHANGED phase

ReadTemperatureRaw ==
    /\ phase = "ready"
    /\ \E fault \in 0..1, sensor \in SensorSamples :
          \E s \in {read_temperature_raw(Entry(fault, sensor))} :
             Leave(s, "read_temperature_raw", <<>>)
    /\ UNCHANGED phase

ReadTemperatureDegrees ==
    /\ phase = "ready"
    /\ \E fault \in 0..1, sensor \in SensorSamples :
          \E s \in {read_temperature_degrees(Entry(fault, sensor))} :
             Leave(s, "read_temperature_degrees", <<>>)
    /\ UNCHANGED phase

RegFile(pwr, gyro, accel) ==
    [r \in ConfigRegs |-> CASE r = PWR_MGMT_1 -> pwr
                            [] r = GYRO_CONFIG -> gyro
                            [] r = ACCEL_CONFIG -> accel]

\* the device holds one of the given register files, no driver object yet
DeviceInit(files) ==
    /\ regs \in files
    /\ gyroscope_scale = None
    /\ accelerometer_scale = None
    /\ phase = "new"
    /\ bus = <<>>
    /\ err = "none"
    /\ result = <<>>
    /\ lastOp = NoCall
    /\ lastMode = "none"
    /\ input = <<>>
    /\ output = <<>>

Init == DeviceInit({RegFile(d[1], d[2], d[3]) : d \in DeviceSamples})

Next ==
    \/ Construct
    \/ WakeUp
    \/ Sleep
    \/ SetGyroscopeRange
    \/ SetAccelerometerRange
    \/ SetClockSource
    \/ ReadGyroscopeRaw
    \/ ReadGyroscopeDegrees
    \/ ReadAccelerometerRaw
    \/ ReadAccelerometerGs
    \/ ReadAccelerometerMeters
    \/ ReadTemperatureRaw
    \/ ReadTemperatureDegrees

Spec == Init /\ [][Next]_vars

\* construction alone, from every content of the power-management register
ConstructInit ==
    DeviceInit({RegFile(pwr, d[2], d[3]) : pwr \in 0..255, d \in DeviceSamples})

ConstructNext == Construct

SpecConstruct == ConstructInit /\ [][ConstructNext]_vars

(***************************************************************************)
(* C5: int_from_bytes agrees with the positional reading of the bytes:     *)
(* for "big" the first byte weighs most, for "little" the last; unsigned   *)
(* results are the weighted sum in 0..2^(8n)-1, signed results are that    *)
(* sum minus 2^(8n) exactly when the sum is at least 2^(8n-1).             *)
(***************************************************************************)
RECURSIVE Pow256(_)
Pow256(n) == IF n = 0 THEN 1 ELSE 256 * Pow256(n - 1)

RECURSIVE WeightedSum(_, _)
\* sum of data[k] * 256^(weight of position k), for k in 1..n
WeightedSum(data, n) ==
    IF n = 0 THEN 0
    ELSE data[n] * Pow256(Len(data) - n) + WeightedSum(data, n - 1)

Reference(data, byteorder, signed) ==
    LET n        == Len(data)
        msbFirst == IF byteorder = "big" THEN data
                    ELSE [k \in 1..n |-> data[n + 1 - k]]
        u        == WeightedSum(msbFirst, n)
    IN  IF signed /\ u >= Pow256(n) \div 2 THEN u - Pow256(n) ELSE u

DecodeMatchesReference ==
    (output.exc # "pending" /\ input.byteorder \in {"big", "little"}) =>
        /\ output.exc = "none"
        /\ output.ret = Reference(input.data, input.byteorder, input.signed)
        /\ LET n == Len(input.data)
           IN  IF input.signed
               THEN output.ret \in (-(Pow256(n) \div 2))..(Pow256(n) \div 2 - 1)
               ELSE output.ret \in 0..(Pow256(n) - 1)
        /\ (input = [data |-> <<255, 255>>, byteorder |-> "big", signed |-> TRUE])
              => output.ret = -1
        /\ (input = [data |-> <<1, 0>>, byteorder |-> "little", signed |-> FALSE])
              => output.ret = 1
        /\ (input = [data |-> <<1, 0>>, byteorder |-> "big", signed |-> FALSE])
              => output.ret = 256

\* a negative three-byte little-endian value has been decoded
DecodeWitness ==
    /\ output.exc = "none"
    /\ input = [data |-> <<1, 0, 128>>, byteorder |-> "little", signed |-> TRUE]
    /\ output.ret = 1 - 8388608

(***************************************************************************)
(* C6: set_bit forces the addressed bit and leaves every other bit alone,  *)
(* the value stays in 0..255, and a second enable_bit (disable_bit) at the *)
(* same index changes nothing.                                             *)
(***************************************************************************)
BitOpsStep ==
    /\ output'.op = "set_bit" =>
          /\ get_bit(output'.value, input.bit_index) = output'.bit_value
          /\ \A j \in (0..7) \ {input.bit_index} :
                get_bit(output'.value, j) = get_bit(output.value, j)
          /\ output'.value \in 0..255
    /\ (output'.op = "enable_bit" /\ output.op = "enable_bit") =>
          output'.value = output.value
    /\ (output'.op = "disable_bit" /\ output.op = "disable_bit") =>
          output'.value = output.value
    /\ output'.op \in {"enable_bit", "disable_bit"} => output'.value \in 0..255

BitOpsLaws == [][BitOpsStep]_vars

\* bit 7 of 0 has been set and then cleared again
BitOpsWitness ==
    /\ input = [value |-> 128, bit_index |-> 7]
    /\ output.op = "set_bit"
    /\ output.bit_value = 0
    /\ output.value = 0

(***************************************************************************)
(* Reading single bits of a register value by arithmetic.                  *)
(***************************************************************************)
Bit(v, j) == (v \div Pow2(j)) % 2

\* the bit positions at which two register values differ
Differ(a, b) == {j \in 0..7 : Bit(a, j) # Bit(b, j)}

\* no configuration register other than r changes in the step
OthersKept(r) == \A q \in ConfigRegs \ {r} : regs'[q] = regs[q]

(***************************************************************************)
(* C1: every bus start of a call is followed by exactly one stop, on the   *)
(* normal path and when a read or write inside the scope fails; a failed   *)
(* transfer is followed at once by the stop that ends the call, and the    *)
(* call then raises the transport error.                                   *)
(***************************************************************************)
Brackets == {"start", "stop"}

Failures == {"read_fail", "write_fail"}

StartStopBracket ==
    /\ \A k \in DOMAIN bus :
          bus[k] = "start" =>
             \E m \in (k + 1)..Len(bus) :
                /\ bus[m] = "stop"
                /\ \A j \in (k + 1)..(m - 1) : bus[j] \notin Brackets
    /\ \A m \in DOMAIN bus :
          bus[m] = "stop" =>
             \E k \in 1..(m - 1) :
                /\ bus[k] = "start"
                /\ \A j \in (k + 1)..(m - 1) : bus[j] \notin Brackets
    /\ \A k \in DOMAIN bus :
          bus[k] \in Failures =>
             /\ k + 1 = Len(bus)
             /\ bus[k + 1] = "stop"
             /\ err = "OSError"
    /\ err = "OSError" => \E k \in DOMAIN bus : bus[k] \in Failures

\* wake_up whose register write failed
StartStopWitness ==
    /\ lastOp.name = "wake_up"
    /\ bus = <<"start", "read", "write_fail", "stop">>
    /\ err = "OSError"

(***************************************************************************)
(* C2: when construction completes, bit 6 of the power-management register *)
(* is 0, whatever the register held before.                                *)
(***************************************************************************)
AwakeAfterConstruction ==
    (phase = "ready" /\ lastOp.name = "__init__") => Bit(regs[PWR_MGMT_1], 6) = 0

\* built on a device whose register had bits 7..2 set, bit 6 included
AwakeWitness ==
    /\ phase = "ready"
    /\ lastOp.name = "__init__"
    /\ regs[PWR_MGMT_1] = 188

(***************************************************************************)
(* C3: when construction completes, bits 2..0 of the power-management      *)
(* register hold 2, the gyroscope-Y clock source.                          *)
(***************************************************************************)
ConstructionSelectsGyroY ==
    (phase = "ready" /\ lastOp.name = "__init__") => regs[PWR_MGMT_1] % 8 = 2

(***************************************************************************)
(* C4: between the calls of a constructed driver, each scale field is the  *)
(* range of the option whose code is in bits 4..3 of its configuration     *)
(* register.                                                               *)
(***************************************************************************)
ScalesAgreeWithRegisters ==
    phase = "ready" =>
       /\ <<(regs[GYRO_CONFIG] \div 8) % 4, gyroscope_scale>> \in GyroscopeRange
       /\ <<(regs[ACCEL_CONFIG] \div 8) % 4, accelerometer_scale>> \in AccelerometerRange

\* the gyroscope set to 1000 deg/s on a register with all other bits set
ScalesAgreeWitness ==
    /\ phase = "ready"
    /\ lastOp = [name |-> "set_gyroscope_range", arg |-> <<2, 1000>>]
    /\ err = "none"
    /\ gyroscope_scale = 1000
    /\ regs[GYRO_CONFIG] = 247

(***************************************************************************)
(* C7: a configuration call changes only its own bits: wake_up and sleep   *)
(* at most bit 6 of PWR_MGMT_1, set_clock_source at most bits 0 and 1 of   *)
(* PWR_MGMT_1, the range setters at most bits 3 and 4 of their register,   *)
(* which on success hold bits 0 and 1 of the option's code; no other       *)
(* register changes.                                                       *)
(***************************************************************************)
FrameStep ==
    phase = "ready" =>
       /\ lastOp'.name \in {"wake_up", "sleep"} =>
             /\ Differ(regs[PWR_MGMT_1], regs'[PWR_MGMT_1]) \subseteq {6}
             /\ OthersKept(PWR_MGMT_1)
       /\ lastOp'.name = "set_clock_source" =>
             /\ Differ(regs[PWR_MGMT_1], regs'[PWR_MGMT_1]) \subseteq {0, 1}
             /\ OthersKept(PWR_MGMT_1)
       /\ lastOp'.name = "set_gyroscope_range" =>
             /\ Differ(regs[GYRO_CONFIG], regs'[GYRO_CONFIG]) \subseteq {3, 4}
             /\ OthersKept(GYRO_CONFIG)
             /\ err' = "none" =>
                   /\ Bit(regs'[GYRO_CONFIG], 3) = Bit(lastOp'.arg[1], 0)
                   /\ Bit(regs'[GYRO_CONFIG], 4) = Bit(lastOp'.arg[1], 1)
       /\ lastOp'.name = "set_accelerometer_range" =>
             /\ Differ(regs[ACCEL_CONFIG], regs'[ACCEL_CONFIG]) \subseteq {3, 4}
             /\ OthersKept(ACCEL_CONFIG)
             /\ err' = "none" =>
                   /\ Bit(regs'[ACCEL_CONFIG], 3) = Bit(lastOp'.arg[1], 0)
                   /\ Bit(regs'[ACCEL_CONFIG], 4) = Bit(lastOp'.arg[1], 1)

FrameEffects == [][FrameStep]_vars

\* the accelerometer set to 4 g on a register with bits 7..5 and 2..0 set
FrameWitness ==
    /\ lastOp = [name |-> "set_accelerometer_range", arg |-> <<1, 4>>]
    /\ err = "none"
    /\ regs[ACCEL_CONFIG] = 239
    /\ regs[GYRO_CONFIG] = 0

(***************************************************************************)
(* C8: on a constructed driver bit 6 of the power-management register is 1 *)
(* exactly when the most recent completed call among construction,         *)
(* wake_up and sleep was sleep, whatever other calls came in between.      *)
(***************************************************************************)
ModeFollowsLastModeCall ==
    phase = "ready" =>
       /\ lastMode \in {"__init__", "wake_up", "sleep"}
       /\ Bit(regs[PWR_MGMT_1], 6) = 1 <=> lastMode = "sleep"

\* still asleep after a clock-source change that followed sleep
ModeWitness ==
    /\ lastMode = "sleep"
    /\ lastOp.name = "set_clock_source"
    /\ err = "none"
    /\ Bit(regs[PWR_MGMT_1], 6) = 1

(***************************************************************************)
(* C9: a range setter that fails raises the transport error after the bus  *)
(* stop and leaves both scale fields as they were; one that succeeds sets  *)
(* its own field only; no other call changes a scale field.                *)
(***************************************************************************)
ScaleStep ==
    phase = "ready" =>
       /\ lastOp'.name = "set_gyroscope_range" =>
             /\ accelerometer_scale' = accelerometer_scale
             /\ IF err' = "none"
                THEN gyroscope_scale' = lastOp'.arg[2]
                ELSE /\ gyroscope_scale' = gyroscope_scale
                     /\ err' = "OSError"
                     /\ bus'[Len(bus')] = "stop"
       /\ lastOp'.name = "set_accelerometer_range" =>
             /\ gyroscope_scale' = gyroscope_scale
             /\ IF err' = "none"
                THEN accelerometer_scale' = lastOp'.arg[2]
                ELSE /\ accelerometer_scale' = accelerometer_scale
                     /\ err' = "OSError"
                     /\ bus'[Len(bus')] = "stop"
       /\ lastOp'.name \notin {"set_gyroscope_range", "set_accelerometer_range"} =>
             /\ gyroscope_scale' = gyroscope_scale
             /\ accelerometer_scale' = accelerometer_scale

ScaleOnlyOnSuccess == [][ScaleStep]_vars

\* a failed request for 2000 deg/s left the scale at 250
ScaleWitness ==
    /\ lastOp = [name |-> "set_gyroscope_range", arg |-> <<3, 2000>>]
    /\ err = "OSError"
    /\ bus = <<"start", "read", "write_fail", "stop">>
    /\ gyroscope_scale = 250

(***************************************************************************)
(* C10: a successful set_clock_source(option) stores the old register      *)
(* value with bit 0 replaced by option bit 0 and bit 1 replaced by option  *)
(* bit 3; bits 7..2 are kept and option bits 1 and 2 play no part.         *)
(***************************************************************************)
ClockStep ==
    (phase = "ready" /\ lastOp'.name = "set_clock_source" /\ err' = "none") =>
       regs'[PWR_MGMT_1] = 4 * (regs[PWR_MGMT_1] \div 4)
                           + 2 * Bit(lastOp'.arg[1], 3) + Bit(lastOp'.arg[1], 0)

====
